---------------------------- MODULE Spec2Model ----------------------------
(***************************************************************************)
(* Model of task_portal.py: the staging buffer kept in the Streamlit       *)
(* session state (pending_task_additions / pending_task_updates /          *)
(* pending_task_deletions), the cached snapshot of the "tasks" worksheet   *)
(* (load_tasks), the overlay shown by head_view / coordinator_view and the *)
(* commit of the buffer to the worksheet (apply_pending_changes).          *)
(*                                                                         *)
(* The worksheet is a sequence of data rows; the header is row 1 of the    *)
(* sheet, so data row i of the sequence is sheet row i + 1.                *)
(* The operations are the functions of the source, called with any         *)
(* argument; every remote call of a commit is one step of it.              *)
(***************************************************************************)
EXTENDS Naturals, Sequences, FiniteSets, TLC

VARIABLES
    sheet,                    \* data rows of the "tasks" worksheet
    tasks_cache,              \* st.cache_data entry of load_tasks: <<>> or <<rows>>
    pending_task_additions,   \* per session: list of new task records
    pending_task_updates,     \* per session: task id -> (column name -> value)
    pending_task_deletions,   \* per session: list of task ids
    pc,                       \* per session: position inside apply_pending_changes
    current_tasks,            \* per session: the rows a phase of the commit fetched
    todo,                     \* per session: the positional writes left in the phase
    log,                      \* per session: store calls issued by its last commit
    last_op,                  \* per session: its most recent staging call or commit
    staged,                   \* per session: <<id, column>> -> value last staged for it
    nops,                     \* number of staging calls made so far
    loads,                    \* how the last load_tasks ended, the last rows fetched
    earlier,                  \* per session: the sessions whose last commit had
                              \* ended when its own last commit began
    users,                    \* data rows of the "users" worksheet
    users_cache,              \* st.cache_data entry of load_users: <<>> or <<rows>>
    login                     \* per session: position inside ensure_user, the
                              \* arguments of the call, the user logged in

vars == <<sheet, tasks_cache, pending_task_additions,
          pending_task_updates, pending_task_deletions, pc, current_tasks,
          todo, log, last_op, staged, nops, loads, earlier,
          users, users_cache, login>>

user_vars == <<users, users_cache, login>>

---------------------------------------------------------------------------
(* Bounds of the model *)

\* staging calls made in one behaviour
MaxOps == 2

\* rows of the "users" worksheet
MaxUsers == 3

---------------------------------------------------------------------------
(* Domains *)

Sessions == {"s1", "s2"}

\* ids are the first 8 hex digits of a uuid4: any of them may come out, one
\* in use ("a") as well as an unused one ("c")
TaskIds == {"a", "c"}

\* the cell values that int() accepts: "7" stands for an id whose 8 hex
\* digits are all decimal
NumericStrings == {"7"}

\* gspread's numericise, applied by get_all_records to every cell: a numeric
\* string comes back as a number, written here int(...), any other unchanged
numericise(value) ==
    IF value \in NumericStrings THEN "int(" \o value \o ")" ELSE value

\* get_all_records (line 62): the data rows as dicts of numericised values
get_all_records(rows) ==
    [i \in 1..Len(rows) |-> [col \in DOMAIN rows[i] |-> numericise(rows[i][col])]]

Columns == <<"id", "title", "description", "assigned_to", "created_by",
             "status", "timestamp", "deadline">>

UpdateCols == {"status", "deadline"}

Statuses == {"Pending", "Done"}
Assignees == {"Unassigned", "coord1"}
Deadlines == {"", "2024-12-01 09:00"}

ColValues(col) ==
    CASE col = "status" -> Statuses
      [] col = "assigned_to" -> Assignees
      [] col = "deadline" -> Deadlines

Username(s) == IF s = "s1" THEN "head1" ELSE "head2"

NowStamp == "2024-11-03 09:00"

NoId == "-"

EmptyMap == [x \in {} |-> {}]

Task(id, title, desc, assigned_to, created_by, status, timestamp, deadline) ==
    [id |-> id, title |-> title, description |-> desc,
     assigned_to |-> assigned_to, created_by |-> created_by,
     status |-> status, timestamp |-> timestamp, deadline |-> deadline]

\* the login form: username, password, role
Usernames == {"bob", "7"}
Passwords == {"pw", "7"}
Roles == {"Coordinator", "Head"}

\* user_sheet.append_row([username, role, password])
User(username, role, password) ==
    [username |-> username, role |-> role, password |-> password]

InitialUsers == << User("bob", "Head", "pw") >>

\* st.session_state["username"] is None, no ensure_user call under way
LoggedOut == [pc |-> "out", username |-> "", role |-> "", password |-> ""]

InitialSheet ==
    << Task("a", "T1", "d", "coord1", "head1", "Pending", "2024-11-01 09:00", "2025-01-01 10:00"),
       Task("b", "T2", "d", "Unassigned", "head2", "Done", "2024-11-02 09:00", ""),
       Task("7", "T3", "d", "coord1", "head2", "Pending", "2024-11-02 09:00", "2024-12-01 09:00") >>

---------------------------------------------------------------------------
(* Helpers on sequences *)

Range(seq) == {seq[i] : i \in 1..Len(seq)}

Ids(rows) == {rows[i].id : i \in 1..Len(rows)}

RemoveAt(seq, i) == SubSeq(seq, 1, i - 1) \o SubSeq(seq, i + 1, Len(seq))

---------------------------------------------------------------------------
(* The staging functions (lines 182-206) *)

\* add_pending_task: appends the new record; the id is whatever uuid4 gave
add_pending_task(additions, new_task_id, title, desc, assigned_to, created_by, deadline) ==
    Append(additions,
           Task(new_task_id, title, desc, assigned_to, created_by,
                "Pending", NowStamp, deadline))

Put(m, k, v) == [x \in (DOMAIN m) \cup {k} |-> IF x = k THEN v ELSE m[x]]

\* update_pending_task as setdefault would write it: a staged value is kept
update_pending_task_first(updates, task_id, column_name, new_value) ==
    LET u == IF task_id \notin DOMAIN updates
             THEN Put(updates, task_id, EmptyMap)
             ELSE updates
    IN IF column_name \in DOMAIN u[task_id]
       THEN u
       ELSE Put(u, task_id, Put(u[task_id], column_name, new_value))

\* update_pending_task: updates[task_id][column_name] = new_value
update_pending_task(updates, task_id, column_name, new_value) ==
    LET u == IF task_id \notin DOMAIN updates
             THEN Put(updates, task_id, EmptyMap)
             ELSE updates
    IN Put(u, task_id, Put(u[task_id], column_name, new_value))

\* delete_pending_task: appends the id unless it is already listed
delete_pending_task(deletions, task_id) ==
    IF task_id \notin Range(deletions)
    THEN Append(deletions, task_id)
    ELSE deletions

---------------------------------------------------------------------------
(* The buffer of a session *)

\* has_pending_changes of main (lines 623-627)
has_pending_changes(s) ==
    \/ pending_task_additions[s] # <<>>
    \/ DOMAIN pending_task_updates[s] # {}
    \/ pending_task_deletions[s] # <<>>

BufferIds(s) ==
    Ids(pending_task_additions[s]) \cup DOMAIN pending_task_updates[s]
        \cup Range(pending_task_deletions[s])

\* a call as last_op records it: prev names the call before it when that one
\* was given the same id; fresh, whether an added id was in use nowhere;
\* empty, whether the buffer was empty when a commit or an edit started;
\* res, how it ended
Op(op, id, col, val, prev, fresh, empty, res) ==
    [op |-> op, id |-> id, col |-> col, val |-> val, prev |-> prev,
     fresh |-> fresh, empty |-> empty, res |-> res]

NoOp == Op("none", NoId, "", "", "", FALSE, FALSE, "")

Prev(s, id) == IF last_op[s].id = id THEN last_op[s].op ELSE ""

Init ==
    /\ sheet = InitialSheet
    /\ tasks_cache = <<>>
    /\ pending_task_additions = [s \in Sessions |-> <<>>]
    /\ pending_task_updates = [s \in Sessions |-> EmptyMap]
    /\ pending_task_deletions = [s \in Sessions |-> <<>>]
    /\ pc = [s \in Sessions |-> "idle"]
    /\ current_tasks = [s \in Sessions |-> <<>>]
    /\ todo = [s \in Sessions |-> <<>>]
    /\ log = [s \in Sessions |-> <<>>]
    /\ last_op = [s \in Sessions |-> NoOp]
    /\ staged = [s \in Sessions |-> EmptyMap]
    /\ nops = 0
    /\ loads = [res |-> "none", good |-> <<>>]
    /\ earlier = [s \in Sessions |-> {}]
    /\ users = InitialUsers
    /\ users_cache = <<>>
    /\ login = [s \in Sessions |-> LoggedOut]

---------------------------------------------------------------------------
(* Staging actions: a session calls one of the three staging functions *)

Idle(s) == pc[s] = "idle"

\* the ids a session can name: those of the rows it has loaded and of its
\* own new tasks
KnownIds(s) ==
    Ids(pending_task_additions[s])
        \cup (IF tasks_cache # <<>> THEN Ids(tasks_cache[1]) ELSE {})

\* a list or dict kept in one module-level variable, shared by the sessions
session_state_shared(values, s, value) == [t \in DOMAIN values |-> value]

\* st.session_state[key] = value: every session has its own session state
session_state(values, s, value) == [values EXCEPT ![s] = value]

StageInsert(s) ==
    /\ Idle(s)
    /\ nops < MaxOps
    /\ nops' = nops + 1
    /\ \E id \in TaskIds, assigned_to \in {"coord1"}, deadline \in {""} :
          /\ pending_task_additions' =
                session_state(pending_task_additions, s,
                    add_pending_task(pending_task_additions[s], id, "A", "d",
                                     assigned_to, Username(s), deadline))
          /\ last_op' = [last_op EXCEPT ![s] =
                Op("add", id, "", "", Prev(s, id),
                   id \notin Ids(sheet) \cup BufferIds(s), FALSE, "")]
    /\ log' = [log EXCEPT ![s] = <<>>]
    /\ UNCHANGED <<user_vars, earlier, loads, sheet, tasks_cache, pending_task_updates,
                   pending_task_deletions, pc, current_tasks, todo, staged>>

StageUpdate(s) ==
    /\ Idle(s)
    /\ nops < MaxOps
    /\ nops' = nops + 1
    /\ \E id \in KnownIds(s), col \in UpdateCols :
         \E val \in ColValues(col) :
          /\ pending_task_updates' =
                session_state(pending_task_updates, s,
                    update_pending_task(pending_task_updates[s], id, col, val))
          /\ staged' = [staged EXCEPT ![s] = Put(@, <<id, col>>, val)]
          /\ last_op' = [last_op EXCEPT ![s] =
                Op("update", id, col, val, Prev(s, id), FALSE, FALSE, "")]
    /\ log' = [log EXCEPT ![s] = <<>>]
    /\ UNCHANGED <<user_vars, earlier, loads, sheet, tasks_cache, pending_task_additions,
                   pending_task_deletions, pc, current_tasks, todo>>

StageDelete(s) ==
    /\ Idle(s)
    /\ nops < MaxOps
    /\ nops' = nops + 1
    /\ \E id \in KnownIds(s) :
          /\ pending_task_deletions' =
                session_state(pending_task_deletions, s,
                    delete_pending_task(pending_task_deletions[s], id))
          /\ last_op' = [last_op EXCEPT ![s] =
                Op("delete", id, "", "", Prev(s, id), FALSE, FALSE, "")]
    /\ log' = [log EXCEPT ![s] = <<>>]
    /\ UNCHANGED <<user_vars, earlier, loads, sheet, tasks_cache, pending_task_additions,
                   pending_task_updates, pc, current_tasks, todo, staged>>

---------------------------------------------------------------------------
(* apply_pending_changes (lines 73-145): the pure parts *)

\* {row[0]: i + 2 for i, row in enumerate(data_rows)}: a later row of the
\* same id replaces an earlier one
task_id_to_row(data_rows) ==
    [id \in Ids(data_rows) |->
        LET last == CHOOSE i \in 1..Len(data_rows) :
                        /\ data_rows[i].id = id
                        /\ \A j \in 1..Len(data_rows) :
                              data_rows[j].id = id => j <= i
        IN last + 1]

\* {col: i + 1 for i, col in enumerate(header)}
header_map ==
    [col \in Range(Columns) |-> CHOOSE i \in 1..Len(Columns) : Columns[i] = col]

Write(id, row, col, val) == [id |-> id, row |-> row, col |-> col, val |-> val]

\* lines 107-110: the rows of the staged ids that the fetch holds, in staging order
RECURSIVE rows_to_delete_actual(_, _)
rows_to_delete_actual(deletions, id_to_row) ==
    IF deletions = <<>> THEN <<>>
    ELSE LET task_id == Head(deletions)
             rest == rows_to_delete_actual(Tail(deletions), id_to_row)
         IN IF task_id \in DOMAIN id_to_row
            THEN <<Write(task_id, id_to_row[task_id], "", "")>> \o rest
            ELSE rest

RECURSIVE InsertDesc(_, _)
InsertDesc(sorted, w) ==
    IF sorted = <<>> THEN <<w>>
    ELSE IF w.row > Head(sorted).row THEN <<w>> \o sorted
    ELSE <<Head(sorted)>> \o InsertDesc(Tail(sorted), w)

\* rows_to_delete_actual.sort(reverse=True): highest row first
RECURSIVE SortReverse(_)
SortReverse(rows) ==
    IF rows = <<>> THEN <<>>
    ELSE InsertDesc(SortReverse(Tail(rows)), Head(rows))

\* lines 112-114: the order in which the deletion phase deletes
deletion_order(rows) == SortReverse(rows)

\* the order in which the dictionaries are walked
IdOrder == <<"a", "b", "7", "int(7)", "c">>
ColOrder == <<"status", "assigned_to", "deadline">>

RECURSIVE ColWrites(_, _, _, _)
ColWrites(task_id, row_num, updates, k) ==
    IF k > Len(ColOrder) THEN <<>>
    ELSE LET col_name == ColOrder[k]
             rest == ColWrites(task_id, row_num, updates, k + 1)
         IN IF col_name \in DOMAIN updates /\ col_name \in DOMAIN header_map
            THEN <<Write(task_id, row_num, col_name, updates[col_name])>> \o rest
            ELSE rest

\* lines 129-136: the cell writes of the update phase, for the ids the fetch holds
RECURSIVE cell_writes(_, _, _)
cell_writes(updates, id_to_row, k) ==
    IF k > Len(IdOrder) THEN <<>>
    ELSE LET task_id == IdOrder[k]
             rest == cell_writes(updates, id_to_row, k + 1)
         IN IF task_id \in DOMAIN updates /\ task_id \in DOMAIN id_to_row
            THEN ColWrites(task_id, id_to_row[task_id], updates[task_id], 1) \o rest
            ELSE rest

\* task_sheet.delete_rows(row_num)
delete_rows(rows, row_num) ==
    IF row_num - 1 \in 1..Len(rows) THEN RemoveAt(rows, row_num - 1) ELSE rows

\* task_sheet.update_cell(row_num, col_index, new_value)
update_cell(rows, row_num, col_index, new_value) ==
    IF row_num - 1 \in 1..Len(rows)
    THEN [rows EXCEPT ![row_num - 1] =
            [@ EXCEPT ![Columns[col_index]] = new_value]]
    ELSE rows

\* the id held by sheet row row_num
IdAt(rows, row_num) ==
    IF row_num - 1 \in 1..Len(rows) THEN rows[row_num - 1].id ELSE NoId

Call(call, w, hit, ok) ==
    [call |-> call, id |-> w.id, row |-> w.row, col |-> w.col, val |-> w.val,
     hit |-> hit, ok |-> ok]

RECURSIVE AppendCalls(_, _)
AppendCalls(rows_to_add, ok) ==
    IF rows_to_add = <<>> THEN <<>>
    ELSE <<Call("append_rows", Write(Head(rows_to_add).id, 0, "", ""), NoId, ok)>>
            \o AppendCalls(Tail(rows_to_add), ok)

\* the phases with the cell writes ahead of the row deletions
PhaseOrderUpdatesFirst == <<"add", "upd_fetch", "del_fetch">>

\* the phases in the order of the code (lines 78, 99, 122)
PhaseOrder == <<"add", "del_fetch", "upd_fetch">>

\* the conditions at lines 79, 100 and 123
HasWork(s, phase) ==
    CASE phase = "add" -> pending_task_additions[s] # <<>>
      [] phase = "del_fetch" -> pending_task_deletions[s] # <<>>
      [] phase = "upd_fetch" -> DOMAIN pending_task_updates[s] # {}

\* the first phase from the k-th on that has something staged
RECURSIVE next_phase(_, _)
next_phase(s, k) ==
    IF k > Len(PhaseOrder) THEN "finish"
    ELSE IF HasWork(s, PhaseOrder[k]) THEN PhaseOrder[k]
    ELSE next_phase(s, k + 1)

\* where the commit goes on after a phase
after_phase(s, phase) ==
    next_phase(s, (CHOOSE k \in 1..Len(PhaseOrder) : PhaseOrder[k] = phase) + 1)

\* a commit that ends without clearing the cache
cache_kept(cache) == cache

\* st.cache_data.clear()
cache_clear(cache) == <<>>

AllOk(calls) == \A i \in 1..Len(calls) : calls[i].ok

---------------------------------------------------------------------------
(* apply_pending_changes, one step per remote call.  A remote call may     *)
(* raise: inside a try block the error is shown and the commit goes on,    *)
(* outside one the exception ends the script run.                          *)

\* the other sessions whose last commit has reached its end
ended_before(s) ==
    {t \in Sessions \ {s} :
        /\ pc[t] = "idle"
        /\ last_op[t].op = "commit"
        /\ last_op[t].res \in {"done", "partial"}}

\* lines 75-76: gc.open("Task-management").worksheet("tasks")
CommitOpen(s) ==
    /\ Idle(s)
    /\ log' = [log EXCEPT ![s] = <<>>]
    /\ LET carry == last_op[s].op \in {"add", "update", "delete"}
           op(res) == Op("commit", IF carry THEN last_op[s].id ELSE NoId,
                         IF carry THEN last_op[s].col ELSE "",
                         IF carry THEN last_op[s].val ELSE "",
                         IF ~carry THEN ""
                         ELSE IF last_op[s].prev \in {"add", "update", "delete"}
                         THEN last_op[s].prev \o "," \o last_op[s].op
                         ELSE last_op[s].op,
                         last_op[s].op = "add" /\ last_op[s].fresh,
                         ~has_pending_changes(s), res)
       IN \/ /\ pc' = [pc EXCEPT ![s] = next_phase(s, 1)]
             /\ last_op' = [last_op EXCEPT ![s] = op("running")]
          \/ /\ pc' = pc
             /\ last_op' = [last_op EXCEPT ![s] = op("raised")]
    /\ earlier' = [u \in Sessions |-> IF u = s THEN ended_before(s)
                                     ELSE earlier[u] \ {s}]
    /\ UNCHANGED <<user_vars, loads, sheet, tasks_cache, pending_task_additions,
                   pending_task_updates, pending_task_deletions, current_tasks,
                   todo, staged, nops>>

\* lines 79-97: one append_rows call for all staged additions
CommitAdd(s) ==
    /\ pc[s] = "add"
    /\ LET rows_to_add == pending_task_additions[s]
       IN \/ /\ sheet' = sheet \o rows_to_add
             /\ log' = [log EXCEPT ![s] = @ \o AppendCalls(rows_to_add, TRUE)]
          \/ /\ sheet' = sheet
             /\ log' = [log EXCEPT ![s] = @ \o AppendCalls(rows_to_add, FALSE)]
    /\ pending_task_additions' = [pending_task_additions EXCEPT ![s] = <<>>]
    /\ pc' = [pc EXCEPT ![s] = after_phase(s, "add")]
    /\ UNCHANGED <<user_vars, earlier, loads, tasks_cache, pending_task_updates,
                   pending_task_deletions, current_tasks, todo, last_op,
                   staged, nops>>

\* an exception outside a try block ends the script run
Raise(s) ==
    /\ pc' = [pc EXCEPT ![s] = "idle"]
    /\ last_op' = [last_op EXCEPT ![s].res = "raised"]
    /\ current_tasks' = [current_tasks EXCEPT ![s] = <<>>]
    /\ todo' = [todo EXCEPT ![s] = <<>>]

\* lines 100-112: get_all_values, the id -> row map, the rows to delete
CommitDelFetch(s) ==
    /\ pc[s] = "del_fetch"
    /\ \/ LET rows == deletion_order(
                        rows_to_delete_actual(pending_task_deletions[s],
                                              task_id_to_row(sheet)))
          IN /\ todo' = [todo EXCEPT ![s] = rows]
             /\ current_tasks' = [current_tasks EXCEPT ![s] = sheet]
             /\ IF rows = <<>>
                THEN /\ pending_task_deletions' =
                            [pending_task_deletions EXCEPT ![s] = <<>>]
                     /\ pc' = [pc EXCEPT ![s] = after_phase(s, "del_fetch")]
                ELSE /\ pending_task_deletions' = pending_task_deletions
                     /\ pc' = [pc EXCEPT ![s] = "del"]
             /\ last_op' = last_op
       \/ /\ Raise(s)
          /\ pending_task_deletions' = pending_task_deletions
    /\ UNCHANGED <<user_vars, earlier, loads, sheet, tasks_cache, pending_task_additions,
                   pending_task_updates, log, staged, nops>>

\* lines 114-120: one delete_rows call; after the last one the list is emptied
CommitDel(s) ==
    /\ pc[s] = "del"
    /\ LET w == Head(todo[s])
       IN \/ /\ sheet' = delete_rows(sheet, w.row)
             /\ log' = [log EXCEPT ![s] =
                          Append(@, Call("delete_rows", w, IdAt(sheet, w.row), TRUE))]
          \/ /\ sheet' = sheet
             /\ log' = [log EXCEPT ![s] =
                          Append(@, Call("delete_rows", w, IdAt(sheet, w.row), FALSE))]
    /\ todo' = [todo EXCEPT ![s] = Tail(@)]
    /\ IF Len(todo[s]) = 1
       THEN /\ pending_task_deletions' = [pending_task_deletions EXCEPT ![s] = <<>>]
            /\ pc' = [pc EXCEPT ![s] = after_phase(s, "del_fetch")]
       ELSE UNCHANGED <<pending_task_deletions, pc>>
    /\ UNCHANGED <<user_vars, earlier, loads, tasks_cache, pending_task_additions,
                   pending_task_updates, current_tasks, last_op, staged, nops>>

\* lines 123-126: get_all_values, header_map, the id -> row map
CommitUpdFetch(s) ==
    /\ pc[s] = "upd_fetch"
    /\ \/ LET writes == cell_writes(pending_task_updates[s],
                                    task_id_to_row(sheet), 1)
          IN /\ todo' = [todo EXCEPT ![s] = writes]
             /\ current_tasks' = [current_tasks EXCEPT ![s] = sheet]
             /\ IF writes = <<>>
                THEN /\ pending_task_updates' =
                            [pending_task_updates EXCEPT ![s] = EmptyMap]
                     /\ staged' = [staged EXCEPT ![s] = EmptyMap]
                     /\ pc' = [pc EXCEPT ![s] = after_phase(s, "upd_fetch")]
                ELSE /\ UNCHANGED <<pending_task_updates, staged>>
                     /\ pc' = [pc EXCEPT ![s] = "upd"]
             /\ last_op' = last_op
       \/ /\ Raise(s)
          /\ UNCHANGED <<pending_task_updates, staged>>
    /\ UNCHANGED <<user_vars, earlier, loads, sheet, tasks_cache, pending_task_additions,
                   pending_task_deletions, log, nops>>

\* lines 129-142: one update_cell call; after the last one the dict is emptied
CommitUpd(s) ==
    /\ pc[s] = "upd"
    /\ LET w == Head(todo[s])
       IN \/ /\ sheet' = update_cell(sheet, w.row, header_map[w.col], w.val)
             /\ log' = [log EXCEPT ![s] =
                          Append(@, Call("update_cell", w, IdAt(sheet, w.row), TRUE))]
          \/ /\ sheet' = sheet
             /\ log' = [log EXCEPT ![s] =
                          Append(@, Call("update_cell", w, IdAt(sheet, w.row), FALSE))]
    /\ todo' = [todo EXCEPT ![s] = Tail(@)]
    /\ IF Len(todo[s]) = 1
       THEN /\ pending_task_updates' = [pending_task_updates EXCEPT ![s] = EmptyMap]
            /\ staged' = [staged EXCEPT ![s] = EmptyMap]
            /\ pc' = [pc EXCEPT ![s] = after_phase(s, "upd_fetch")]
       ELSE UNCHANGED <<pending_task_updates, staged, pc>>
    /\ UNCHANGED <<user_vars, earlier, loads, tasks_cache, pending_task_additions,
                   pending_task_deletions, current_tasks, last_op, nops>>

\* lines 144-145: st.cache_data.clear(), st.rerun()
CommitFinish(s) ==
    /\ pc[s] = "finish"
    /\ tasks_cache' = cache_clear(tasks_cache)
    /\ users_cache' = cache_clear(users_cache)
    /\ pc' = [pc EXCEPT ![s] = "idle"]
    /\ last_op' = [last_op EXCEPT ![s].res =
                      IF AllOk(log[s]) THEN "done" ELSE "partial"]
    /\ current_tasks' = [current_tasks EXCEPT ![s] = <<>>]
    /\ UNCHANGED <<users, login, earlier, loads, sheet, pending_task_additions, pending_task_updates,
                   pending_task_deletions, todo, log, staged, nops>>

---------------------------------------------------------------------------
(* load_tasks (lines 56-71) behind st.cache_data(ttl=5) *)

\* a call of load_tasks: the cached value, or a fetch whose result is cached;
\* a failed fetch yields [] and that value is cached as well
LoadTasks(s) ==
    /\ Idle(s)
    /\ IF tasks_cache # <<>>
       THEN tasks_cache' = tasks_cache
       ELSE \/ tasks_cache' = <<get_all_records(sheet)>>
            \/ tasks_cache' = << <<>> >>
    /\ UNCHANGED <<user_vars, earlier, loads, sheet, pending_task_additions, pending_task_updates,
                   pending_task_deletions, pc, current_tasks, todo, log,
                   last_op, staged, nops>>

\* the same call with its history kept: how the last fetch ended and the rows
\* of the last fetch that succeeded
LoadTasksLogged(s) ==
    /\ Idle(s)
    /\ IF tasks_cache # <<>>
       THEN UNCHANGED <<tasks_cache, loads>>
       ELSE \/ /\ tasks_cache' = <<get_all_records(sheet)>>
               /\ loads' = [res |-> "fetched",
                            good |-> <<get_all_records(sheet)>>]
            \/ /\ tasks_cache' = << <<>> >>
               /\ loads' = [loads EXCEPT !.res = "failed"]
    /\ UNCHANGED <<user_vars, earlier, sheet, pending_task_additions, pending_task_updates,
                   pending_task_deletions, pc, current_tasks, todo, log,
                   last_op, staged, nops>>

\* the time-to-live of the cache entry runs out
Expire ==
    /\ tasks_cache # <<>>
    /\ tasks_cache' = <<>>
    /\ UNCHANGED <<user_vars, earlier, loads, sheet, pending_task_additions, pending_task_updates,
                   pending_task_deletions, pc, current_tasks, todo, log, last_op,
                   staged, nops>>

---------------------------------------------------------------------------
(* The users worksheet: load_users (lines 45-54) behind                    *)
(* st.cache_data(ttl=10), verify_user_credentials (147-156), ensure_user   *)
(* (158-179), login (207-239) and the logout button of main (640-642)      *)

task_vars == <<sheet, pc, current_tasks, todo, log, last_op, nops, loads, earlier>>

\* next((user for user in users if user['username'] == username), None)
existing_user(users_list, username) ==
    LET found == {i \in 1..Len(users_list) : users_list[i].username = username}
    IN IF found = {} THEN <<>>
       ELSE <<users_list[CHOOSE i \in found : \A j \in found : i <= j]>>

\* lines 147-156, on the list load_users returned
verify_user_credentials(users_list, username, password) ==
    LET found == existing_user(users_list, username)
    IN IF found # <<>>
       THEN [is_valid |-> found[1].password = password,
             user_status |-> "existing",
             role |-> found[1].role]
       ELSE [is_valid |-> TRUE, user_status |-> "new", role |-> ""]

\* the ensure_user calls that may still append a row
Appending == {t \in Sessions : login[t].pc = "append"}

\* the login button: ensure_user up to the end of verify_user_credentials.
\* load_users returns the cached list, or fetches; a failed fetch yields []
\* and that value is cached.  An existing user is logged in or turned away
\* here, a new one goes on to append_row.
LoginVerify(s) ==
    /\ login[s].pc = "out"
    /\ Len(users) + Cardinality(Appending) < MaxUsers
    /\ \E username \in Usernames, role \in Roles, password \in Passwords :
        \E loaded \in IF users_cache # <<>> THEN {users_cache}
                      ELSE {<<get_all_records(users)>>, << <<>> >>} :
          LET r == verify_user_credentials(loaded[1], username, password)
          IN /\ users_cache' = loaded
             /\ login' = [login EXCEPT ![s] =
                    IF r.user_status = "new"
                    THEN [pc |-> "append", username |-> username,
                          role |-> role, password |-> password]
                    ELSE IF r.is_valid /\ r.role = role
                    THEN [pc |-> "in", username |-> username,
                          role |-> r.role, password |-> ""]
                    ELSE LoggedOut]
    /\ UNCHANGED <<task_vars, users, tasks_cache, pending_task_additions,
                   pending_task_updates, pending_task_deletions, staged>>

\* lines 164-168: open the worksheet, append_row, st.cache_data.clear(); an
\* exception of the open or of the append is caught at line 178
LoginAppend(s) ==
    /\ login[s].pc = "append"
    /\ \/ /\ users' = Append(users, User(login[s].username, login[s].role,
                                         login[s].password))
          /\ users_cache' = cache_clear(users_cache)
          /\ tasks_cache' = cache_clear(tasks_cache)
          /\ login' = [login EXCEPT ![s] =
                          [pc |-> "in", username |-> login[s].username,
                           role |-> login[s].role, password |-> ""]]
       \/ /\ login' = [login EXCEPT ![s] = LoggedOut]
          /\ UNCHANGED <<users, users_cache, tasks_cache>>
    /\ UNCHANGED <<task_vars, pending_task_additions, pending_task_updates,
                   pending_task_deletions, staged>>

\* lines 640-642: st.session_state.clear(), st.rerun(): the session starts
\* over with the values of lines 16-26
Logout(s) ==
    /\ login[s].pc = "in"
    /\ Idle(s)
    /\ login' = [login EXCEPT ![s] = LoggedOut]
    /\ pending_task_additions' = [pending_task_additions EXCEPT ![s] = <<>>]
    /\ pending_task_updates' = [pending_task_updates EXCEPT ![s] = EmptyMap]
    /\ pending_task_deletions' = [pending_task_deletions EXCEPT ![s] = <<>>]
    /\ staged' = [staged EXCEPT ![s] = EmptyMap]
    /\ UNCHANGED <<task_vars, users, users_cache, tasks_cache>>

\* the time-to-live of the cached user list runs out
ExpireUsers ==
    /\ users_cache # <<>>
    /\ users_cache' = <<>>
    /\ UNCHANGED <<task_vars, users, login, tasks_cache, pending_task_additions,
                   pending_task_updates, pending_task_deletions, staged>>

---------------------------------------------------------------------------
(* The overlay shown by the views (lines 317-345 and 474-508) *)

\* datetime.strptime(value, "%Y-%m-%d %H:%M") on the strings of the model
strptime(value) ==
    CASE value = "2024-11-01 09:00" -> <<2024, 11, 1, 9, 0>>
      [] value = "2024-11-02 09:00" -> <<2024, 11, 2, 9, 0>>
      [] value = "2024-11-03 09:00" -> <<2024, 11, 3, 9, 0>>
      [] value = "2024-12-01 09:00" -> <<2024, 12, 1, 9, 0>>
      [] value = "2025-01-01 10:00" -> <<2025, 1, 1, 10, 0>>
      [] OTHER -> "ValueError"

datetime_max == <<9999, 12, 31, 23, 59>>
datetime_min == <<1, 1, 1, 0, 0>>

\* a datetime as <<day, minute of the day>>, which compare as datetimes do
DtNum(dt) == <<(dt[1] * 13 + dt[2]) * 32 + dt[3], dt[4] * 60 + dt[5]>>

\* the strings of the model that strptime parses, and what they parse to
TimeStrings ==
    {"2024-11-01 09:00", "2024-11-02 09:00", "2024-11-03 09:00",
     "2024-12-01 09:00", "2025-01-01 10:00"}

ParsedTime == [value \in TimeStrings |-> DtNum(strptime(value))]

MaxTime == DtNum(datetime_max)
MinTime == DtNum(datetime_min)

\* a sort key that puts the tasks without a deadline first
task_sort_key_empty_first(task) ==
    (IF task.deadline \in TimeStrings THEN ParsedTime[task.deadline] ELSE MinTime)
       \o << IF task.status = "Pending" THEN 0 ELSE 1 >>
       \o (IF task.timestamp \in TimeStrings THEN ParsedTime[task.timestamp] ELSE MinTime)

\* task_sort_key: (deadline_dt, status_order, timestamp_dt), flattened
task_sort_key(task) ==
    LET deadline_val == task.deadline
        timestamp_val == task.timestamp
    IN (IF deadline_val \in TimeStrings THEN ParsedTime[deadline_val] ELSE MaxTime)
       \o << IF task.status = "Pending" THEN 0 ELSE 1 >>
       \o (IF timestamp_val \in TimeStrings THEN ParsedTime[timestamp_val] ELSE MinTime)

\* the order of Python tuples
KeyLess(x, y) ==
    \E k \in 1..Len(x) :
        /\ x[k] < y[k]
        /\ \A j \in 1..(k - 1) : x[j] = y[j]

RECURSIVE InsertStable(_, _)
InsertStable(sorted, task) ==
    IF sorted = <<>> THEN <<task>>
    ELSE IF KeyLess(task_sort_key(task), task_sort_key(Head(sorted)))
         THEN <<task>> \o sorted
         ELSE <<Head(sorted)>> \o InsertStable(Tail(sorted), task)

\* list.sort(key=task_sort_key): ascending, equal keys keep their order
RECURSIVE SortTasks(_)
SortTasks(tasks) ==
    IF tasks = <<>> THEN <<>>
    ELSE InsertStable(SortTasks(SubSeq(tasks, 1, Len(tasks) - 1)), tasks[Len(tasks)])

\* display_task = task.copy(); display_task[col] = val for the staged updates
overlay_task(task, updates) ==
    IF task.id \in DOMAIN updates
    THEN [col \in DOMAIN task |->
            IF col \in DOMAIN updates[task.id]
            THEN updates[task.id][col] ELSE task[col]]
    ELSE task

RECURSIVE OverlayAll(_, _)
OverlayAll(tasks, updates) ==
    IF tasks = <<>> THEN <<>>
    ELSE <<overlay_task(Head(tasks), updates)>> \o OverlayAll(Tail(tasks), updates)

\* the views without the filter on the staged deletions
drop_deleted_none(tasks, deletions) == tasks

\* [t for t in display_tasks if t['id'] not in pending_task_deletions]
RECURSIVE drop_deleted(_, _)
drop_deleted(tasks, deletions) ==
    IF tasks = <<>> THEN <<>>
    ELSE IF Head(tasks).id \notin Range(deletions)
         THEN <<Head(tasks)>> \o drop_deleted(Tail(tasks), deletions)
         ELSE drop_deleted(Tail(tasks), deletions)

StatusFilters == {"All", "Pending", "Done", "Unassigned"}
coordinators == {"coord1"}
AssigneeFilters == {"All", "Unassigned"} \cup coordinators

\* lines 474-482: the filters of head_view, on the rows as loaded
head_filter(task, status_filter, assignee_filter) ==
    /\ \/ status_filter = "All"
       \/ status_filter = "Unassigned" /\ task.assigned_to = "Unassigned"
       \/ status_filter \notin {"All", "Unassigned"} /\ task.status = status_filter
    /\ \/ assignee_filter = "All"
       \/ task.assigned_to = assignee_filter

RECURSIVE HeadFiltered(_, _, _)
HeadFiltered(tasks, status_filter, assignee_filter) ==
    IF tasks = <<>> THEN <<>>
    ELSE IF head_filter(Head(tasks), status_filter, assignee_filter)
         THEN <<Head(tasks)>> \o HeadFiltered(Tail(tasks), status_filter, assignee_filter)
         ELSE HeadFiltered(Tail(tasks), status_filter, assignee_filter)

\* lines 484-508: display_tasks of head_view
head_display_tasks(tasks, updates, deletions, status_filter, assignee_filter) ==
    SortTasks(
        drop_deleted(
            OverlayAll(HeadFiltered(tasks, status_filter, assignee_filter), updates),
            deletions))

\* lines 248 and 319: my_tasks and the status filter of coordinator_view
coordinator_filter(task, username, status_filter) ==
    /\ task.assigned_to = username
    /\ status_filter = "All" \/ task.status = status_filter

RECURSIVE CoordinatorFiltered(_, _, _)
CoordinatorFiltered(tasks, username, status_filter) ==
    IF tasks = <<>> THEN <<>>
    ELSE IF coordinator_filter(Head(tasks), username, status_filter)
         THEN <<Head(tasks)>> \o CoordinatorFiltered(Tail(tasks), username, status_filter)
         ELSE CoordinatorFiltered(Tail(tasks), username, status_filter)

\* lines 335-345: display_tasks of coordinator_view
coordinator_display_tasks(tasks, updates, deletions, username, status_filter) ==
    SortTasks(
        drop_deleted(
            OverlayAll(CoordinatorFiltered(tasks, username, status_filter), updates),
            deletions))

\* what load_tasks() returns without a fetch: the cached rows
Cached == tasks_cache # <<>>
Snapshot == IF Cached THEN tasks_cache[1] ELSE <<>>

\* what session s is shown, as a Head and as the Coordinator coord1
HeadView(s, status_filter, assignee_filter) ==
    head_display_tasks(Snapshot, pending_task_updates[s],
                       pending_task_deletions[s], status_filter, assignee_filter)

CoordinatorView(s, status_filter) ==
    coordinator_display_tasks(Snapshot, pending_task_updates[s],
                              pending_task_deletions[s], "coord1", status_filter)

\* the choices of the filters: of head_view, and of coordinator_view
ViewChoices ==
    (StatusFilters \X AssigneeFilters) \cup ({"All", "Pending", "Done"} \X {"coordinator"})

\* the view of session s under one choice of the filters
ViewOf(s, choice) ==
    IF choice[2] = "coordinator"
    THEN CoordinatorView(s, choice[1])
    ELSE HeadView(s, choice[1], choice[2])

---------------------------------------------------------------------------
(* The edit widgets of the views (lines 353-363 and 523-581) *)

EditCols == {"status", "assigned_to", "deadline"}

\* what the widgets can return: the radio, the selectbox, the date and time
EditValues(col) ==
    CASE col = "status" -> {"Pending", "Done"}
      [] col = "assigned_to" -> coordinators \cup {"Unassigned"}
      [] col = "deadline" -> Deadlines \cup {"2025-01-01 10:00"}

\* line 579: the deadline of the first loaded row of this id, '' without one
original_deadline_val(all_tasks, task_id) ==
    IF \E i \in 1..Len(all_tasks) : all_tasks[i].id = task_id
    THEN all_tasks[CHOOSE i \in 1..Len(all_tasks) :
                      /\ all_tasks[i].id = task_id
                      /\ \A j \in 1..(i - 1) : all_tasks[j].id # task_id].deadline
    ELSE ""

\* the conditions at lines 362, 531, 543 and 580; task is the row as displayed
edit_guard(all_tasks, task, col, new_value) ==
    CASE col = "status" -> new_value # task.status
      [] col = "assigned_to" -> new_value # task.assigned_to
      [] col = "deadline" -> new_value # original_deadline_val(all_tasks, task.id)

\* the edit handlers without their conditions
head_edit_unguarded(updates, all_tasks, task, col, new_value) ==
    update_pending_task(updates, task.id, col, new_value)

\* an edit of one displayed task: update_pending_task behind its condition
head_edit(updates, all_tasks, task, col, new_value) ==
    IF edit_guard(all_tasks, task, col, new_value)
    THEN update_pending_task(updates, task.id, col, new_value)
    ELSE updates

\* the script run of a widget event: main has drawn the sidebar from the
\* buffer as it was (lines 623-638) when head_view handles the widget
HeadEdit(s) ==
    /\ Idle(s)
    /\ Cached
    /\ nops < MaxOps
    /\ nops' = nops + 1
    /\ \E i \in 1..Len(HeadView(s, "All", "All")), col \in EditCols :
         \E val \in EditValues(col) :
            LET task == HeadView(s, "All", "All")[i]
                called == edit_guard(Snapshot, task, col, val)
            IN /\ pending_task_updates' =
                     [pending_task_updates EXCEPT ![s] =
                         head_edit(@, Snapshot, task, col, val)]
               /\ staged' = IF called
                            THEN [staged EXCEPT ![s] = Put(@, <<task.id, col>>, val)]
                            ELSE staged
               /\ last_op' = [last_op EXCEPT ![s] =
                     Op("edit", task.id, col, val, Prev(s, task.id), FALSE,
                        ~has_pending_changes(s),
                        IF called THEN "staged" ELSE "skipped")]
    /\ log' = [log EXCEPT ![s] = <<>>]
    /\ UNCHANGED <<user_vars, earlier, loads, sheet, tasks_cache, pending_task_additions,
                   pending_task_deletions, pc, current_tasks, todo>>

\* whether the page drawn by the last script run of session s has the save
\* button (lines 623-631): main tests has_pending_changes before the view
\* runs, so the edit of that run is not counted; add_pending_task,
\* delete_pending_task and a commit are followed by st.rerun
save_button_shown(s) ==
    IF last_op[s].op = "edit"
    THEN ~last_op[s].empty
    ELSE has_pending_changes(s)

---------------------------------------------------------------------------
(* The specification of one session *)

SessionStep(s) ==
    \/ StageInsert(s)
    \/ StageUpdate(s)
    \/ StageDelete(s)
    \/ CommitOpen(s)
    \/ CommitAdd(s)
    \/ CommitDelFetch(s)
    \/ CommitDel(s)
    \/ CommitUpdFetch(s)
    \/ CommitUpd(s)
    \/ CommitFinish(s)
    \/ LoadTasks(s)

Next ==
    \/ SessionStep("s1")
    \/ Expire

Spec == Init /\ [][Next]_vars

\* the same with the history of load_tasks kept
CacheNext ==
    \/ StageInsert("s1")
    \/ StageUpdate("s1")
    \/ StageDelete("s1")
    \/ CommitOpen("s1")
    \/ CommitAdd("s1")
    \/ CommitDelFetch("s1")
    \/ CommitDel("s1")
    \/ CommitUpdFetch("s1")
    \/ CommitUpd("s1")
    \/ CommitFinish("s1")
    \/ LoadTasksLogged("s1")
    \/ Expire

CacheSpec == Init /\ [][CacheNext]_vars

\* two sessions on the same worksheet
TwoNext ==
    \/ SessionStep("s1")
    \/ SessionStep("s2")
    \/ Expire

TwoSpec == Init /\ [][TwoNext]_vars

\* the views of one session over a worksheet that holds the rows in any
\* order: what is drawn is the input of the projection
ViewInit ==
    /\ \E p \in Permutations(1..Len(InitialSheet)) :
          sheet = [i \in 1..Len(InitialSheet) |-> InitialSheet[p[i]]]
    /\ tasks_cache = <<>>
    /\ pending_task_additions = [s \in Sessions |-> <<>>]
    /\ pending_task_updates = [s \in Sessions |-> EmptyMap]
    /\ pending_task_deletions = [s \in Sessions |-> <<>>]
    /\ pc = [s \in Sessions |-> "idle"]
    /\ current_tasks = [s \in Sessions |-> <<>>]
    /\ todo = [s \in Sessions |-> <<>>]
    /\ log = [s \in Sessions |-> <<>>]
    /\ last_op = [s \in Sessions |-> NoOp]
    /\ staged = [s \in Sessions |-> EmptyMap]
    /\ nops = 0
    /\ loads = [res |-> "none", good |-> <<>>]
    /\ earlier = [s \in Sessions |-> {}]
    /\ users = InitialUsers
    /\ users_cache = <<>>
    /\ login = [s \in Sessions |-> LoggedOut]

ViewNext ==
    \/ StageUpdate("s1")
    \/ StageDelete("s1")
    \/ LoadTasks("s1")
    \/ Expire

ViewSpec == ViewInit /\ [][ViewNext]_vars

\* the staging calls of two sessions between two commits
StageStep(s) ==
    \/ StageInsert(s)
    \/ StageUpdate(s)
    \/ StageDelete(s)

StageNext ==
    \/ StageStep("s1")
    \/ StageStep("s2")
    \/ LoadTasks("s1")
    \/ Expire

StageSpec == Init /\ [][StageNext]_vars

\* the login page, for two sessions
LoginStep(s) ==
    \/ LoginVerify(s)
    \/ LoginAppend(s)
    \/ Logout(s)

LoginNext ==
    \/ LoginStep("s1")
    \/ LoginStep("s2")
    \/ ExpireUsers

LoginSpec == Init /\ [][LoginNext]_vars

\* the same with the edit widgets of head_view
EditNext ==
    \/ Next
    \/ HeadEdit("s1")

EditSpec == Init /\ [][EditNext]_vars

---------------------------------------------------------------------------
(* Properties *)

RECURSIVE RowsNotIn(_, _)
RowsNotIn(rows, ids) ==
    IF rows = <<>> THEN <<>>
    ELSE IF Head(rows).id \in ids THEN RowsNotIn(Tail(rows), ids)
    ELSE <<Head(rows)>> \o RowsNotIn(Tail(rows), ids)

UniqueIds(rows) == \A i, j \in 1..Len(rows) : rows[i].id = rows[j].id => i = j

\* the step that ends the deletion phase of session s, and the rows before it
DelPhaseEnds(s) ==
    /\ pc[s] \in {"del_fetch", "del"}
    /\ pc'[s] \in {"upd_fetch", "finish"}

DelPhaseBefore(s) == IF pc[s] = "del_fetch" THEN sheet ELSE current_tasks[s]

\* C1: when no store call of the commit failed, the deletion phase leaves in
\* the sheet exactly the rows whose id is not among the staged deletions, with
\* their values and in their order (all rows of a staged id are gone).
C1_DeletionPhaseExact ==
    [][\A s \in Sessions :
          (DelPhaseEnds(s) /\ AllOk(log'[s]))
              => sheet' = RowsNotIn(DelPhaseBefore(s),
                                    Range(pending_task_deletions[s]))]_vars

\* The same on a sheet whose ids are unique: what the top-down order ensures.
DeletionPhaseExactOnUniqueIds ==
    [][\A s \in Sessions :
          (DelPhaseEnds(s) /\ AllOk(log'[s]) /\ UniqueIds(DelPhaseBefore(s)))
              => sheet' = RowsNotIn(DelPhaseBefore(s),
                                    Range(pending_task_deletions[s]))]_vars

\* Two staged deletions were applied to rows with other rows around them.
DeletionPhaseTwoRows ==
    \E s \in Sessions :
        /\ pc[s] \in {"upd_fetch", "finish"}
        /\ Len(log[s]) = 2
        /\ \A i \in 1..2 : log[s][i].call = "delete_rows" /\ log[s][i].ok

\* C2: no view of a session shows a record whose id is among its staged
\* deletions.
C2_NoDeletedShown ==
    \A s \in Sessions :
        (Cached /\ pending_task_deletions[s] # <<>>)
            => \A choice \in ViewChoices :
                  LET view == ViewOf(s, choice)
                  IN \A i \in 1..Len(view) :
                        view[i].id \notin Range(pending_task_deletions[s])

\* a deletion is staged for a row of the snapshot while other rows are shown
C2_Witness ==
    \E s \in Sessions :
        /\ Idle(s)
        /\ \E i \in 1..Len(Snapshot) :
              Snapshot[i].id \in Range(pending_task_deletions[s])
        /\ HeadView(s, "All", "All") # <<>>

\* C3: a shown record shows, for every column with a staged value for its id,
\* the value staged last.
C3_LatestStagedShown ==
    \A s \in Sessions :
        (Cached /\ DOMAIN staged[s] # {})
            => \A choice \in ViewChoices :
                  LET view == ViewOf(s, choice)
                  IN \A i \in 1..Len(view) : \A k \in DOMAIN staged[s] :
                        view[i].id = k[1] => view[i][k[2]] = staged[s][k]

\* a value staged over an earlier staged value, both unlike the loaded one
C3_Witness ==
    \E s \in Sessions :
        /\ Idle(s)
        /\ last_op[s].op = "update"
        /\ last_op[s].prev = "update"
        /\ \E i \in 1..Len(Snapshot) :
              /\ Snapshot[i].id = last_op[s].id
              /\ Snapshot[i][last_op[s].col] # last_op[s].val
        /\ \E i \in 1..Len(HeadView(s, "All", "All")) :
              HeadView(s, "All", "All")[i].id = last_op[s].id

PhaseRank(call) ==
    CASE call = "append_rows" -> 1
      [] call = "delete_rows" -> 2
      [] call = "update_cell" -> 3

\* C4: in the store writes of a commit every append precedes every
\* delete_rows, and every delete_rows precedes every update_cell.
C4_PhaseOrder ==
    \A s \in Sessions : \A i, j \in 1..Len(log[s]) :
        i < j => PhaseRank(log[s][i].call) <= PhaseRank(log[s][j].call)

\* a commit that has deleted a row and then written a cell
C4_Witness ==
    \E s \in Sessions : \E i, j \in 1..Len(log[s]) :
        /\ i < j
        /\ log[s][i].call = "delete_rows"
        /\ log[s][j].call = "update_cell"

\* whether the change a store call stood for is still in the buffer
StillStaged(s, c) ==
    CASE c.call = "append_rows" -> c.id \in Ids(pending_task_additions[s])
      [] c.call = "delete_rows" -> c.id \in Range(pending_task_deletions[s])
      [] c.call = "update_cell" ->
            /\ c.id \in DOMAIN pending_task_updates[s]
            /\ c.col \in DOMAIN pending_task_updates[s][c.id]
            /\ pending_task_updates[s][c.id][c.col] = c.val

CommitCompleted(s) ==
    Idle(s) /\ last_op[s].op = "commit" /\ last_op[s].res \in {"done", "partial"}

\* C5: after a commit every change whose store write failed is still staged.
C5_FailedStayStaged ==
    \A s \in Sessions :
        CommitCompleted(s) =>
            \A i \in 1..Len(log[s]) : ~log[s][i].ok => StillStaged(s, log[s][i])

\* a commit of session s that ran to its end without a failed store call,
\* followed by a load that fetched the rows
CommittedAndLoaded(s) ==
    /\ Idle(s)
    /\ last_op[s].op = "commit"
    /\ last_op[s].res = "done"
    /\ Cached
    /\ Snapshot = get_all_records(sheet)

\* the view of session s shows a record of this id (as loaded) with title A,
\* status Pending
ShowsNewTask(s, id) ==
    \E i \in 1..Len(HeadView(s, "All", "All")) :
        LET t == HeadView(s, "All", "All")[i]
        IN t.id = id /\ t.title = "A" /\ t.status = "Pending"

\* C6: after add_pending_task with title A, a commit without a failure and a
\* load after the invalidation, the view shows a record with title A and
\* status Pending whose id was in neither the sheet nor the buffer before.
C6_RoundTrip ==
    \A s \in Sessions :
        (CommittedAndLoaded(s) /\ last_op[s].prev = "add")
            => /\ last_op[s].fresh
               /\ ShowsNewTask(s, numericise(last_op[s].id))

\* The same for the ids that did come out fresh.
RoundTripOfFreshId ==
    \A s \in Sessions :
        (CommittedAndLoaded(s) /\ last_op[s].prev = "add" /\ last_op[s].fresh)
            => ShowsNewTask(s, numericise(last_op[s].id))

\* a step of a commit that session s started on an empty buffer
EmptyCommitStep(s) ==
    /\ last_op'[s].op = "commit"
    /\ last_op'[s].empty
    /\ pc'[s] # pc[s] \/ last_op'[s] # last_op[s]

\* C7: a commit of an empty buffer leaves the sheet and the cached snapshot
\* as they are, and the buffer empty.
C7_EmptyCommitNoOp ==
    [][\A s \in Sessions :
          EmptyCommitStep(s)
              => /\ sheet' = sheet
                 /\ tasks_cache' = tasks_cache
                 /\ ~has_pending_changes(s)']_vars

\* What a commit of an empty buffer does keep: the sheet, the empty buffer,
\* and it issues no store write.
EmptyCommitWritesNothing ==
    [][\A s \in Sessions :
          EmptyCommitStep(s)
              => /\ sheet' = sheet
                 /\ log'[s] = <<>>
                 /\ ~has_pending_changes(s)']_vars

\* C8: after delete_pending_task(id) and then update_pending_task(id, f, v)
\* the id is among the deletions and the updates hold no entry for it, and
\* the commit that follows issues no update_cell for it.
C8_DeleteThenUpdate ==
    \A s \in Sessions :
        /\ (last_op[s].op = "update" /\ last_op[s].prev = "delete")
              => /\ last_op[s].id \in Range(pending_task_deletions[s])
                 /\ last_op[s].id \notin DOMAIN pending_task_updates[s]
        /\ (last_op[s].op = "commit" /\ last_op[s].prev = "delete,update")
              => \A i \in 1..Len(log[s]) :
                    log[s][i].call = "update_cell" => log[s][i].id # last_op[s].id

\* C9: right after delete_pending_task(id) the id is among the deletions and
\* neither among the additions nor among the updates.
C9_DeleteDropsOthers ==
    \A s \in Sessions :
        last_op[s].op = "delete"
            => /\ last_op[s].id \in Range(pending_task_deletions[s])
               /\ last_op[s].id \notin Ids(pending_task_additions[s])
               /\ last_op[s].id \notin DOMAIN pending_task_updates[s]

\* C10: right after update_pending_task(id, field, value), when id is among
\* the additions the staged record holds the value and the updates hold no
\* entry for id; otherwise updates[id][field] = value.
C10_UpdateOfInsertion ==
    \A s \in Sessions :
        last_op[s].op = "update" =>
            LET id == last_op[s].id
                additions == pending_task_additions[s]
                updates == pending_task_updates[s]
            IN IF id \in Ids(additions)
               THEN /\ \A i \in 1..Len(additions) :
                          additions[i].id = id
                              => additions[i][last_op[s].col] = last_op[s].val
                    /\ id \notin DOMAIN updates
               ELSE /\ id \in DOMAIN updates
                    /\ last_op[s].col \in DOMAIN updates[id]
                    /\ updates[id][last_op[s].col] = last_op[s].val

\* What update_pending_task does for every id: updates[id][field] = value.
UpdateAlwaysRecorded ==
    \A s \in Sessions :
        last_op[s].op = "update" =>
            /\ last_op[s].id \in DOMAIN pending_task_updates[s]
            /\ last_op[s].col \in DOMAIN pending_task_updates[s][last_op[s].id]
            /\ pending_task_updates[s][last_op[s].id][last_op[s].col] = last_op[s].val

\* C11: the view of a session holds every record of its pending additions
\* (under the filters that let every record pass).
C11_InsertionsShown ==
    \A s \in Sessions :
        Cached =>
            \A j \in 1..Len(pending_task_additions[s]) :
                \E i \in 1..Len(HeadView(s, "All", "All")) :
                    /\ HeadView(s, "All", "All")[i].id = pending_task_additions[s][j].id
                    /\ HeadView(s, "All", "All")[i].title = pending_task_additions[s][j].title

\* C12: an edit whose value equals the value the displayed record has (the
\* loaded value overridden by the staged one) leaves the updates unchanged,
\* for the status, the assignee and the deadline.
C12_NoRedundantUpdate ==
    \A s \in Sessions :
        Cached =>
            LET view == HeadView(s, "All", "All")
            IN \A i \in 1..Len(view), col \in EditCols :
                  head_edit(pending_task_updates[s], Snapshot, view[i], col, view[i][col])
                      = pending_task_updates[s]

\* The same when the loaded rows have unique ids.
NoRedundantUpdateOnUniqueIds ==
    \A s \in Sessions :
        (Cached /\ UniqueIds(Snapshot)) =>
            LET view == HeadView(s, "All", "All")
            IN \A i \in 1..Len(view), col \in EditCols :
                  head_edit(pending_task_updates[s], Snapshot, view[i], col, view[i][col])
                      = pending_task_updates[s]

\* an edit left out because its value was the displayed one, over a staged value
EditSkipped ==
    \E s \in Sessions :
        /\ last_op[s].op = "edit"
        /\ last_op[s].res = "skipped"
        /\ <<last_op[s].id, last_op[s].col>> \in DOMAIN staged[s]

\* whether a record satisfies the filter of a view under one choice
PassesFilter(task, choice) ==
    IF choice[2] = "coordinator"
    THEN coordinator_filter(task, "coord1", choice[1])
    ELSE head_filter(task, choice[1], choice[2])

\* C13: a loaded record whose id is not staged for deletion is in the view
\* under a choice of the filters exactly when its effective values (loaded,
\* overridden by the staged ones) satisfy the filter.
C13_FilterAfterOverlay ==
    \A s \in Sessions :
        (Cached /\ DOMAIN pending_task_updates[s] # {}) =>
            \A choice \in ViewChoices :
                LET view == ViewOf(s, choice)
                IN \A i \in 1..Len(Snapshot) :
                      LET effective == overlay_task(Snapshot[i], pending_task_updates[s])
                      IN Snapshot[i].id \notin Range(pending_task_deletions[s])
                            => ((\E j \in 1..Len(view) : view[j] = effective)
                                    <=> PassesFilter(effective, choice))

\* C14: once a commit that had something to apply has run to its end, what
\* load_tasks returns is not the snapshot cached before it: the rows are
\* fetched again (or the fetch fails and the result is empty).
C14_NoStaleSnapshotAfterCommit ==
    \A s \in Sessions :
        (CommitCompleted(s) /\ ~last_op[s].empty /\ Cached)
            => \/ Snapshot = get_all_records(sheet)
               \/ Snapshot = <<>>

\* a commit changed the sheet and the rows loaded after it show the change
C14_Witness ==
    \E s \in Sessions :
        /\ CommitCompleted(s)
        /\ ~last_op[s].empty
        /\ sheet # InitialSheet
        /\ Cached
        /\ Snapshot = get_all_records(sheet)

\* C15: after a commit in which every store call succeeded the additions,
\* the updates and the deletions of the session are all empty and the save
\* button is not on the page; and the save button is on the page whenever
\* one of the three is not empty.
C15_SaveOfferedIffPending ==
    \A s \in Sessions :
        /\ (CommitCompleted(s) /\ last_op[s].res = "done")
              => /\ pending_task_additions[s] = <<>>
                 /\ DOMAIN pending_task_updates[s] = {}
                 /\ pending_task_deletions[s] = <<>>
                 /\ ~save_button_shown(s)
        /\ (Idle(s) /\ has_pending_changes(s)) => save_button_shown(s)

\* The first half: a commit without a failed call drains the buffer.
DrainedAfterFullCommit ==
    \A s \in Sessions :
        (CommitCompleted(s) /\ last_op[s].res = "done")
            => /\ ~has_pending_changes(s)
               /\ ~save_button_shown(s)

\* C16: no failure of a remote call ends a commit with an exception: every
\* commit goes on to the cache invalidation.
C16_CommitNeverRaises ==
    \A s \in Sessions :
        (last_op[s].op = "commit" /\ ~last_op[s].empty)
            => last_op[s].res # "raised"

\* C17: a load whose fetch failed returns the rows of the last fetch that
\* succeeded when there is one, and the empty list only when no fetch has
\* succeeded so far
C17_FailedFetchKeepsLastGood ==
    (loads.res = "failed" /\ Cached) =>
        Snapshot = (IF loads.good # <<>> THEN loads.good[1] ELSE <<>>)

\* a failed fetch before any successful one yields the empty list
FailedFirstFetchIsEmpty ==
    (loads.res = "failed" /\ Cached /\ loads.good = <<>>) => Snapshot = <<>>

\* every failed fetch yields the empty list, whatever was fetched before
FailedFetchIsEmpty ==
    (loads.res = "failed" /\ Cached) => Snapshot = <<>>

\* the ids of the writes a fetch step has planned
PlannedIds(writes) == {writes[k].id : k \in 1..Len(writes)}

\* the store holds the record that load_tasks shows under task_id
Present(task_id, rows) ==
    \E i \in 1..Len(rows) : numericise(rows[i].id) = task_id

\* the fetched rows hold task_id as get_all_values spells it
FetchedAs(task_id, rows) ==
    \E i \in 1..Len(rows) : rows[i].id = task_id

\* a fetch of the commit of session s that did not raise
DelFetched(s) ==
    pc[s] = "del_fetch" /\ pc'[s] # "del_fetch" /\ last_op'[s].res # "raised"

UpdFetched(s) ==
    pc[s] = "upd_fetch" /\ pc'[s] # "upd_fetch" /\ last_op'[s].res # "raised"

\* C18: at the fetch of the deletion phase and of the update phase, commit
\* plans no write for a staged id whose record the store no longer holds,
\* and plans the writes of every staged id whose record it holds.
C18_WritesIffPresent ==
    [][\A s \in Sessions :
          /\ DelFetched(s) =>
                \A task_id \in Range(pending_task_deletions[s]) :
                    task_id \in PlannedIds(todo'[s]) <=> Present(task_id, sheet)
          /\ UpdFetched(s) =>
                \A task_id \in DOMAIN pending_task_updates[s] :
                    task_id \in PlannedIds(todo'[s]) <=> Present(task_id, sheet)
      ]_vars

\* the same with presence read as equality with the id string of the fetch
WritesIffFetchedAs ==
    [][\A s \in Sessions :
          /\ DelFetched(s) =>
                \A task_id \in Range(pending_task_deletions[s]) :
                    task_id \in PlannedIds(todo'[s]) <=> FetchedAs(task_id, sheet)
          /\ UpdFetched(s) =>
                \A task_id \in DOMAIN pending_task_updates[s] :
                    task_id \in PlannedIds(todo'[s]) <=> FetchedAs(task_id, sheet)
      ]_vars

\* a staged id whose record is gone gets no write, in both phases
NoWriteForAbsent ==
    [][\A s \in Sessions :
          /\ DelFetched(s) =>
                \A task_id \in Range(pending_task_deletions[s]) :
                    ~Present(task_id, sheet) => task_id \notin PlannedIds(todo'[s])
          /\ UpdFetched(s) =>
                \A task_id \in DOMAIN pending_task_updates[s] :
                    ~Present(task_id, sheet) => task_id \notin PlannedIds(todo'[s])
      ]_vars

\* a fetch step meets a staged id whose record is gone
AbsentAtFetch ==
    \E s \in Sessions :
        \/ /\ pc[s] = "del_fetch"
           /\ \E task_id \in Range(pending_task_deletions[s]) : ~Present(task_id, sheet)
        \/ /\ pc[s] = "upd_fetch"
           /\ \E task_id \in DOMAIN pending_task_updates[s] : ~Present(task_id, sheet)

\* session s committed one staged update after the commit of session t had
\* ended, t having committed an update of the same field of the same task,
\* and no store call of either commit failed
CommittedUpdate(s) ==
    /\ CommitCompleted(s)
    /\ last_op[s].res = "done"
    /\ last_op[s].prev = "update"

CommittedAfter(s, t) ==
    /\ s # t
    /\ CommittedUpdate(s)
    /\ CommittedUpdate(t)
    /\ t \in earlier[s]
    /\ last_op[s].id = last_op[t].id
    /\ last_op[s].col = last_op[t].col

\* C19: when two sessions have each committed an update of the same field
\* of the same task without a failure, one commit after the other, the
\* field of that task holds the value of the later commit.
C19_LastCommitterWins ==
    \A s \in Sessions : \A t \in Sessions :
        CommittedAfter(s, t) =>
            \A i \in 1..Len(sheet) :
                numericise(sheet[i].id) = last_op[s].id
                    => sheet[i][last_op[s].col] = last_op[s].val

\* the same for the tasks whose id get_all_values spells as load_tasks does
LastCommitterWinsOnTextIds ==
    \A s \in Sessions : \A t \in Sessions :
        CommittedAfter(s, t) =>
            \A i \in 1..Len(sheet) :
                sheet[i].id = last_op[s].id
                    => sheet[i][last_op[s].col] = last_op[s].val

\* two commits of the same field of a task the sheet holds, one after the other
TwoCommitsOfOneField ==
    \E s \in Sessions : \E t \in Sessions :
        /\ CommittedAfter(s, t)
        /\ last_op[s].val # last_op[t].val
        /\ last_op[s].id \in Ids(sheet)

\* C20: task ids are unique: no two rows of the sheet share an id, no two
\* new tasks of one session share an id, no new task has the id of a row of
\* the sheet, and add_pending_task always draws an id that is not in use.
C20_IdsUnique ==
    /\ UniqueIds(sheet)
    /\ \A s \in Sessions :
          /\ UniqueIds(pending_task_additions[s])
          /\ Ids(pending_task_additions[s]) \cap Ids(sheet) = {}
          /\ last_op[s].op = "add" => last_op[s].fresh

UniqueUsernames(rows) ==
    \A i, j \in 1..Len(rows) : rows[i].username = rows[j].username => i = j

\* C21: the users worksheet holds at most one row per username, whatever
\* the order of the logins of the sessions.
C21_OneRowPerUsername == UniqueUsernames(users)

\* C23: for the users worksheet as it stands and every username and
\* password, verify_user_credentials answers "new" for a username without a
\* row, and "existing" for one with a row, is_valid being true exactly when
\* the password equals the one of that row.
C23_VerifyExact ==
    \A username \in Usernames, password \in Passwords :
        LET r == verify_user_credentials(get_all_records(users), username, password)
            row == existing_user(users, username)
        IN IF row = <<>>
           THEN r.user_status = "new" /\ r.is_valid
           ELSE /\ r.user_status = "existing"
                /\ r.is_valid <=> (row[1].password = password)

\* the same against the list as load_users returns it
VerifyExactOnLoadedList ==
    \A username \in Usernames \cup {"int(7)"},
       password \in Passwords \cup {"int(7)"} :
        LET users_list == get_all_records(users)
            r == verify_user_credentials(users_list, username, password)
            row == existing_user(users_list, username)
        IN IF row = <<>>
           THEN r.user_status = "new" /\ r.is_valid
           ELSE /\ r.user_status = "existing"
                /\ r.is_valid <=> (row[1].password = password)

\* the dates of the model from the earliest to the latest
TimeOrder ==
    <<"2024-11-01 09:00", "2024-11-02 09:00", "2024-11-03 09:00",
      "2024-12-01 09:00", "2025-01-01 10:00">>

TimeRank ==
    [value \in Range(TimeOrder) |->
        CHOOSE k \in 1..Len(TimeOrder) : TimeOrder[k] = value]

\* the triple of a shown record: its deadline, an empty one after every
\* date; its status, Pending before Done; the time it was created
SortTriple(task) ==
    << IF task.deadline = "" THEN Len(TimeOrder) + 1 ELSE TimeRank[task.deadline],
       IF task.status = "Pending" THEN 0 ELSE 1,
       TimeRank[task.timestamp] >>

TripleLess(x, y) ==
    \/ x[1] < y[1]
    \/ x[1] = y[1] /\ x[2] < y[2]
    \/ x[1] = y[1] /\ x[2] = y[2] /\ x[3] < y[3]

\* C22: every view is sorted by (deadline, an empty deadline last; status,
\* Pending first; creation time): no shown record has a smaller triple than
\* a record shown before it.
C22_ViewsSorted ==
    \A s \in Sessions :
        Cached =>
            \A choice \in ViewChoices :
                LET view == ViewOf(s, choice)
                    triple == [i \in 1..Len(view) |-> SortTriple(view[i])]
                IN \A i, j \in DOMAIN triple :
                      i < j => ~TripleLess(triple[j], triple[i])

\* the rows of the snapshot carry the deadlines 2025-01-01 10:00 (Pending),
\* none (Pending) and 2024-12-01 09:00 (Done) in that order, and the view
\* shows them as 2024-12-01, 2025-01-01, none
C22_Witness ==
    \E s \in Sessions :
        /\ Cached
        /\ Len(Snapshot) = 3
        /\ LET shown == OverlayAll(Snapshot, pending_task_updates[s])
               view == HeadView(s, "All", "All")
           IN /\ [i \in 1..3 |-> shown[i].deadline]
                    = <<"2025-01-01 10:00", "", "2024-12-01 09:00">>
              /\ [i \in 1..3 |-> shown[i].status] = <<"Pending", "Pending", "Done">>
              /\ Len(view) = 3
              /\ [i \in 1..3 |-> view[i].deadline]
                    = <<"2024-12-01 09:00", "2025-01-01 10:00", "">>

\* the three lists of the buffer of session s
Buffer(s) ==
    <<pending_task_additions[s], pending_task_updates[s], pending_task_deletions[s]>>

\* C24: a staging call (add_pending_task, update_pending_task,
\* delete_pending_task) changes the buffer of the calling session only: the
\* rows of the worksheet, the cached snapshot and the buffers of the other
\* sessions are the same after the call.
C24_StagingOnlyOwnBuffer ==
    [][nops' = nops + 1 =>
          /\ sheet' = sheet
          /\ tasks_cache' = tasks_cache
          /\ \E s \in Sessions :
                \A t \in Sessions \ {s} : Buffer(t)' = Buffer(t)
      ]_vars

\* a staging call of one session has been made while the snapshot is cached
\* and the other session holds staged changes of its own
C24_Witness ==
    \E s \in Sessions : \E t \in Sessions \ {s} :
        /\ last_op[s].op \in {"add", "update", "delete"}
        /\ last_op[t].op \in {"add", "update", "delete"}
        /\ has_pending_changes(s)
        /\ has_pending_changes(t)
        /\ Buffer(s) # Buffer(t)
        /\ Cached

\* the step that ends the update phase of session s, and the rows before it
UpdPhaseEnds(s) ==
    /\ pc[s] \in {"upd_fetch", "upd"}
    /\ pc'[s] = "finish"

UpdPhaseBefore(s) == IF pc[s] = "upd_fetch" THEN sheet ELSE current_tasks[s]

\* the commit of session s has deleted a row before its update phase
DeletedBefore(s) ==
    \E k \in 1..Len(log[s]) : log[s][k].call = "delete_rows" /\ log[s][k].ok

\* the rows with the staged values written into the records of the staged
\* ids, a record being named by the id load_tasks shows for it
RowsUpdated(rows, updates) ==
    [i \in 1..Len(rows) |->
        LET task_id == numericise(rows[i].id)
        IN [col \in DOMAIN rows[i] |->
              IF task_id \in DOMAIN updates /\ col \in DOMAIN updates[task_id]
              THEN updates[task_id][col]
              ELSE rows[i][col]]]

\* C25: in a commit that deleted rows and whose store calls all succeeded,
\* the update phase changes exactly the staged fields of the records of the
\* staged ids, where they stand after the deletions, and no other field.
C25_UpdatesExactAfterDeletions ==
    [][\A s \in Sessions :
          (UpdPhaseEnds(s) /\ DeletedBefore(s) /\ AllOk(log'[s]))
              => sheet' = RowsUpdated(UpdPhaseBefore(s), pending_task_updates[s])
      ]_vars

\* every cell write of a commit hit a row that held the id it was planned for
UpdateWritesHitTheirId ==
    \A s \in Sessions :
        \A k \in 1..Len(log[s]) :
            log[s][k].call = "update_cell" => log[s][k].hit = log[s][k].id

\* the update phase changes no record but those of the staged ids, and of
\* those no field but the staged ones
UpdatesTouchOnlyStaged ==
    [][\A s \in Sessions :
          (UpdPhaseEnds(s) /\ DeletedBefore(s))
              => /\ Len(sheet') = Len(UpdPhaseBefore(s))
                 /\ \A i \in 1..Len(sheet') : \A col \in DOMAIN sheet'[i] :
                       sheet'[i][col] # UpdPhaseBefore(s)[i][col]
                           => /\ sheet'[i].id \in DOMAIN pending_task_updates[s]
                              /\ col \in DOMAIN pending_task_updates[s][sheet'[i].id]
                              /\ sheet'[i][col] = pending_task_updates[s][sheet'[i].id][col]
      ]_vars

\* the same as C25 when the fetched rows have unique ids that get_all_values
\* spells as load_tasks does
UpdatesExactOnUniqueTextIds ==
    [][\A s \in Sessions :
          (/\ UpdPhaseEnds(s) /\ DeletedBefore(s) /\ AllOk(log'[s])
           /\ UniqueIds(UpdPhaseBefore(s))
           /\ \A task_id \in DOMAIN pending_task_updates[s] :
                 Present(task_id, UpdPhaseBefore(s))
                     => FetchedAs(task_id, UpdPhaseBefore(s)))
              => sheet' = RowsUpdated(UpdPhaseBefore(s), pending_task_updates[s])
      ]_vars

\* a commit deleted a row and then wrote a cell of a row that stood below it
UpdateBelowDeletedRow ==
    \E s \in Sessions :
        \E j, k \in 1..Len(log[s]) :
            /\ log[s][j].call = "delete_rows" /\ log[s][j].ok
            /\ log[s][k].call = "update_cell" /\ log[s][k].ok
            /\ log[s][j].row <= log[s][k].row

\* C26: every delete_rows and every update_cell of a commit hits a row that
\* holds, when the call is made, the id the row number was resolved for,
\* whatever the commits of the other sessions do in between.
C26_WritesHitResolvedId ==
    \A s \in Sessions :
        \A k \in 1..Len(log[s]) :
            (log[s][k].call \in {"delete_rows", "update_cell"} /\ log[s][k].ok)
                => log[s][k].hit = log[s][k].id

=============================================================================
